---- MODULE Spec2Model ----
(***************************************************************************)
(* Startup Scoring Tool (src/app.py): the scorer score_startup, the tier   *)
(* classifier classify_score and the CSV batch loop with its result tables.*)
(*                                                                         *)
(* Python values are tagged records [k, n, s]: k is the kind ("absent" for *)
(* a missing dict key, "null" for None, "int", "bool", "str"), n the       *)
(* number and s the string as a sequence of one-character strings.         *)
(***************************************************************************)
EXTENDS Integers, Sequences, FiniteSets, TLC

VARIABLES data, phase, score_trace, raised, result,
          cscore, cgroup,
          domains, i, pc, results, outcomes, log, results_df, top10

vars == <<data, phase, score_trace, raised, result, cscore, cgroup,
          domains, i, pc, results, outcomes, log, results_df, top10>>

scorer_vars == <<data, phase, score_trace, raised, result>>
classify_vars == <<cscore, cgroup>>
batch_vars == <<domains, i, pc, results, outcomes, log, results_df, top10>>

(* ------------------------------ bounds -------------------------------- *)
MaxDomains == 3
MaxEmails == 2
MaxCount == 4
MaxScore == 160

(* --------------------------- Python values ---------------------------- *)
Absent == [k |-> "absent", n |-> 0, s |-> <<>>]
None == [k |-> "null", n |-> 0, s |-> <<>>]
PyInt(x) == [k |-> "int", n |-> x, s |-> <<>>]
PyBool(b) == [k |-> "bool", n |-> IF b THEN 1 ELSE 0, s |-> <<>>]
PyStr(x) == [k |-> "str", n |-> 0, s |-> x]

NoList == [k |-> "absent", l |-> <<>>]
NullList == [k |-> "null", l |-> <<>>]
PyList(x) == [k |-> "list", l |-> x]

\* Python truth value of a scalar
Truthy(v) ==
  CASE v.k = "int" -> v.n # 0
    [] v.k = "bool" -> v.n # 0
    [] v.k = "str" -> Len(v.s) > 0
    [] OTHER -> FALSE

\* dict.get(key, default): the default only when the key is missing
Get(d, key, default) == IF d[key].k = "absent" THEN default ELSE d[key]

Min(a, b) == IF a < b THEN a ELSE b

UpperLetters == <<"A","B","C","D","E","F","G","H","I","J","K","L","M",
                  "N","O","P","Q","R","S","T","U","V","W","X","Y","Z">>
LowerLetters == <<"a","b","c","d","e","f","g","h","i","j","k","l","m",
                  "n","o","p","q","r","s","t","u","v","w","x","y","z">>

LowerChar(c) ==
  IF \E j \in 1..Len(UpperLetters) : UpperLetters[j] = c
  THEN LowerLetters[CHOOSE j \in 1..Len(UpperLetters) : UpperLetters[j] = c]
  ELSE c

\* str.lower()
Lower(s) == [j \in 1..Len(s) |-> LowerChar(s[j])]

s_software == <<"s","o","f","t","w","a","r","e">>
s_technology == <<"t","e","c","h","n","o","l","o","g","y">>
s_saas == <<"s","a","a","s">>
s_ceo == <<"c","e","o">>
s_founder == <<"f","o","u","n","d","e","r">>
s_cto == <<"c","t","o">>
s_generic == <<"g","e","n","e","r","i","c">>
s_personal == <<"p","e","r","s","o","n","a","l">>
s_NA == <<"N","/","A">>

(* ------------------------------ scorer -------------------------------- *)
\* lines 60-61
EmailVolumeTerm_nocap(email_count) ==
  IF Truthy(email_count) THEN email_count.n * 10 ELSE 0

EmailVolumeTerm(email_count) ==
  IF Truthy(email_count) THEN Min(30, email_count.n * 10) ELSE 0

\* lines 62-63
IndustryTerm(industry) ==
  IF Truthy(industry) /\ Lower(industry.s) \in {s_software, s_technology, s_saas}
  THEN 10 ELSE 0

\* lines 64-65
HeadcountTerm_ge(employees) ==
  IF Truthy(employees) /\ employees.n >= 10 THEN 20 ELSE 0

HeadcountTerm(employees) ==
  IF Truthy(employees) /\ employees.n > 10 THEN 20 ELSE 0

\* lines 66-67
WebmailTerm(d) == IF Truthy(Get(d, "webmail", None)) THEN 10 ELSE 0

\* lines 70-78, one pass of the loop body; None >= 80 raises TypeError
EmailEntryRaises(email) ==
  /\ email.type.s \in {s_generic, s_personal}
  /\ Get(email, "confidence", PyInt(0)).k = "null"

EmailEntryBonus_elif(email) ==
  IF email.type.s \in {s_generic, s_personal}
  THEN IF Get(email, "confidence", PyInt(0)).n >= 80 THEN 10
       ELSE IF Truthy(Get(email, "position", None))
               /\ Lower(email.position.s) \in {s_ceo, s_founder, s_cto}
            THEN 5 ELSE 0
  ELSE 0

EmailEntryBonus(email) ==
  IF email.type.s \in {s_generic, s_personal}
  THEN (IF Get(email, "confidence", PyInt(0)).n >= 80 THEN 10 ELSE 0)
       + (IF Truthy(Get(email, "position", None))
             /\ Lower(email.position.s) \in {s_ceo, s_founder, s_cto}
          THEN 5 ELSE 0)
  ELSE 0

RECURSIVE EmailLoopBonus(_)
EmailLoopBonus(es) ==
  IF es = <<>> THEN 0
  ELSE EmailEntryBonus(Head(es)) + EmailLoopBonus(Tail(es))

\* line 69: iterating None raises TypeError; lines 70-71 raise inside the loop
EmailLoopRaises(d) ==
  \/ d.emails.k = "null"
  \/ \E j \in 1..Len(d.emails.l) : EmailEntryRaises(d.emails.l[j])

\* value of the local `score` after lines 61, 63, 65 and 67
ScoreTrace(d) ==
  LET s1 == EmailVolumeTerm(Get(d, "emails_count", PyInt(0)))
      s2 == s1 + IndustryTerm(Get(d, "industry", PyStr(<<>>)))
      s3 == s2 + HeadcountTerm(Get(d, "employees", PyInt(0)))
      s4 == s3 + WebmailTerm(d)
  IN <<s1, s2, s3, s4>>

NoResult == [organization |-> None, domain |-> None, industry |-> None,
             emails_found |-> None, employees |-> None, score |-> 0]

\* lines 52-87
score_startup(d) ==
  LET industry == Get(d, "industry", PyStr(<<>>))
      email_count == Get(d, "emails_count", PyInt(0))
      employees == Get(d, "employees", PyInt(0))
      tr == ScoreTrace(d)
  IN IF EmailLoopRaises(d)
     THEN [raised |-> TRUE, trace |-> tr, result |-> NoResult]
     ELSE [raised |-> FALSE, trace |-> tr,
           result |->
             [organization |-> Get(d, "organization", Get(d, "domain", PyStr(s_NA))),
              domain |-> Get(d, "domain", None),
              industry |-> IF Truthy(industry) THEN industry ELSE PyStr(s_NA),
              emails_found |-> email_count,
              employees |-> IF Truthy(employees) THEN employees ELSE PyStr(s_NA),
              score |-> tr[4] + EmailLoopBonus(d.emails.l)]]

\* lines 184-190
classify_score_gt(score) ==
  IF score > 75 THEN "High" ELSE IF score >= 40 THEN "Mid" ELSE "Low"

classify_score(score) ==
  IF score >= 75 THEN "High" ELSE IF score >= 40 THEN "Mid" ELSE "Low"

(* --------------------------- scorer inputs ---------------------------- *)
s_SaaS == <<"S","a","a","S">>
s_Technology == <<"T","e","c","h","n","o","l","o","g","y">>
s_Finance == <<"F","i","n","a","n","c","e">>
s_CEO == <<"C","E","O">>
s_CTO == <<"C","T","O">>
s_Engineer == <<"E","n","g","i","n","e","e","r">>
s_other == <<"o","t","h","e","r">>
s_stripe == <<"s","t","r","i","p","e",".","c","o","m">>

IndustryValues ==
  {Absent, None, PyStr(<<>>), PyStr(s_SaaS), PyStr(s_saas), PyStr(s_Technology),
   PyStr(s_Finance)}
CountValues == {Absent, None} \cup {PyInt(n) : n \in (-1..MaxCount) \cup {50}}
EmployeesValues == {Absent, None, PyInt(0), PyInt(10), PyInt(11), PyInt(500)}
EmployeesCountValues == {Absent, PyInt(5), PyInt(500)}
WebmailValues == {Absent, None, PyBool(FALSE), PyBool(TRUE)}

EmailEntries ==
  [type : {PyStr(s_generic), PyStr(s_personal), PyStr(s_other)},
   confidence : {Absent, None, PyInt(79), PyInt(80)},
   position : {Absent, None, PyStr(s_CEO), PyStr(s_founder), PyStr(s_Engineer)}]

EmailLists == UNION {[1..n -> EmailEntries] : n \in 0..MaxEmails}

EmptyRecord ==
  [organization |-> Absent, domain |-> Absent, industry |-> Absent,
   emails_count |-> Absent, employees |-> Absent, employees_count |-> Absent,
   webmail |-> Absent, emails |-> NoList]

\* the scalar fields vary, the emails list is missing or null
ScalarInputs ==
  [organization : {Absent}, domain : {PyStr(s_stripe)}, industry : IndustryValues,
   emails_count : CountValues, employees : EmployeesValues,
   employees_count : EmployeesCountValues, webmail : WebmailValues,
   emails : {NoList, NullList}]

\* the emails list varies
EmailInputs == {[EmptyRecord EXCEPT !.emails = PyList(es)] : es \in EmailLists}

\* spec.md section 8, end-to-end example
StripeExample ==
  [organization |-> Absent, domain |-> PyStr(s_stripe),
   industry |-> PyStr(s_Technology), emails_count |-> PyInt(2),
   employees |-> Absent, employees_count |-> PyInt(500),
   webmail |-> PyBool(FALSE),
   emails |-> PyList(<<[type |-> PyStr(s_generic), confidence |-> PyInt(95),
                        position |-> PyStr(s_CTO)]>>)]

\* spec.md section 8, ten generic emails with confidence 90 and position CEO
TenCeoExample ==
  [EmptyRecord EXCEPT !.emails =
     PyList([j \in 1..10 |-> [type |-> PyStr(s_generic), confidence |-> PyInt(90),
                              position |-> PyStr(s_CEO)]])]

ScorerInputs == ScalarInputs \cup EmailInputs \cup {StripeExample, TenCeoExample}

(* ----------------------- idle values of the flows ---------------------- *)
NoTable == [columns |-> <<>>, rows |-> <<>>]

ScorerIdle ==
  /\ data = EmptyRecord /\ phase = "idle" /\ score_trace = <<>>
  /\ raised = FALSE /\ result = NoResult
ClassifyIdle == cscore = 0 /\ cgroup = "none"
BatchIdle ==
  /\ domains = <<>> /\ i = 0 /\ pc = "idle" /\ results = <<>> /\ outcomes = <<>>
  /\ log = <<>> /\ results_df = NoTable /\ top10 = NoTable

(* ------------------- score_startup applied to a record ----------------- *)
InitScore ==
  /\ data \in ScorerInputs /\ phase = "input" /\ score_trace = <<>>
  /\ raised = FALSE /\ result = NoResult
  /\ ClassifyIdle /\ BatchIdle

\* lines 99-100: result = score_startup(data)
ScoreRecord ==
  /\ phase = "input"
  /\ LET r == score_startup(data)
     IN /\ score_trace' = r.trace
        /\ raised' = r.raised
        /\ result' = r.result
  /\ phase' = "scored"
  /\ UNCHANGED <<data, classify_vars, batch_vars>>

NextScore == ScoreRecord
SpecScore == InitScore /\ [][NextScore]_vars

(* ------------------- classify_score applied to a score ----------------- *)
InitClassify ==
  /\ cscore \in (-10)..MaxScore /\ cgroup = "none"
  /\ ScorerIdle /\ BatchIdle

\* lines 192, 200: .apply(classify_score)
Classify ==
  /\ cgroup = "none"
  /\ cgroup' = classify_score(cscore)
  /\ UNCHANGED <<cscore, scorer_vars, batch_vars>>

NextClassify == Classify
SpecClassify == InitClassify /\ [][NextClassify]_vars

(* ------------------------------ batch --------------------------------- *)
DomainNames == {<<"a">>, <<"b">>}
DomainLists == UNION {[1..n -> DomainNames] : n \in 0..MaxDomains}

\* enrichment records the API may return for a domain
MidRecord(d) ==
  [EmptyRecord EXCEPT !.domain = PyStr(d), !.industry = PyStr(s_Technology),
     !.emails_count = PyInt(2), !.employees_count = PyInt(500),
     !.emails = PyList(<<[type |-> PyStr(s_generic), confidence |-> PyInt(95),
                          position |-> PyStr(s_CTO)]>>)]
HighRecord(d) ==
  [MidRecord(d) EXCEPT !.employees = PyInt(500), !.webmail = PyBool(TRUE)]
NullEmailsRecord(d) == [MidRecord(d) EXCEPT !.emails = NullList]

\* response.json(): with or without the "data" key
Bodies(d) ==
  {[has_data |-> TRUE, data |-> r] :
     r \in {EmptyRecord, MidRecord(d), HighRecord(d), NullEmailsRecord(d)}}
  \cup {[has_data |-> FALSE, data |-> EmptyRecord]}

NoBody == [has_data |-> FALSE, data |-> EmptyRecord]

\* what requests.get does for the domain: a response, or an exception
Outcomes(d) ==
  {[domain |-> d, kind |-> "ok", status |-> 200, body |-> b] : b \in Bodies(d)}
  \cup {[domain |-> d, kind |-> "status", status |-> 404, body |-> NoBody]}
  \cup {[domain |-> d, kind |-> "exc", status |-> 0, body |-> NoBody]}

\* lines 159-166 and 170-177
Placeholder(domain) ==
  [organization |-> PyStr(s_NA), domain |-> PyStr(domain), industry |-> PyStr(s_NA),
   emails_found |-> PyInt(0), employees |-> PyStr(s_NA), score |-> 0]

\* lines 168-178: the bare except appends the placeholder
OnException_drop(res, domain) == res

OnException(res, domain) == Append(res, Placeholder(domain))

\* lines 150-178: one pass of the try statement
TryFetchAndScore(res, o) ==
  IF o.kind = "exc" THEN OnException(res, o.domain)
  ELSE IF o.status = 200
       THEN IF ~o.body.has_data THEN OnException(res, o.domain)
            ELSE LET r == score_startup(o.body.data)
                 IN IF r.raised THEN OnException(res, o.domain)
                    ELSE Append(res, r.result)
       ELSE Append(res, Placeholder(o.domain))

Event(e, d) == [e |-> e, d |-> d]

\* line 179: time.sleep after the try statement, on every path
Pace_on_success(lg, o) ==
  IF o.kind = "ok" THEN Append(lg, Event("sleep", o.domain)) ELSE lg

Pace(lg, o) == Append(lg, Event("sleep", o.domain))

InitBatch ==
  /\ domains \in DomainLists
  /\ i = 1
  /\ pc = IF domains = <<>> THEN "tables" ELSE "fetch"
  /\ results = <<>> /\ outcomes = <<>> /\ log = <<>>
  /\ results_df = NoTable /\ top10 = NoTable
  /\ ScorerIdle /\ ClassifyIdle

ProcessDomain(o) ==
  /\ pc = "fetch"
  /\ results' = TryFetchAndScore(results, o)
  /\ outcomes' = Append(outcomes, o)
  /\ log' = log \o <<Event("fetch", o.domain), Event("append", o.domain)>>
  /\ pc' = "sleep"
  /\ UNCHANGED <<domains, i, results_df, top10, scorer_vars, classify_vars>>

\* lines 152-156: status 200
FetchOk ==
  /\ pc = "fetch"
  /\ \E o \in Outcomes(domains[i]) : o.kind = "ok" /\ ProcessDomain(o)

\* lines 157-167: any other status
FetchStatus ==
  /\ pc = "fetch"
  /\ \E o \in Outcomes(domains[i]) : o.kind = "status" /\ ProcessDomain(o)

\* lines 168-178: requests.get raises
FetchRaises ==
  /\ pc = "fetch"
  /\ \E o \in Outcomes(domains[i]) : o.kind = "exc" /\ ProcessDomain(o)

\* line 179, then the next iteration of line 149
Sleep ==
  /\ pc = "sleep"
  /\ log' = Pace(log, outcomes[i])
  /\ i' = i + 1
  /\ pc' = IF i + 1 > Len(domains) THEN "tables" ELSE "fetch"
  /\ UNCHANGED <<domains, results, outcomes, results_df, top10, scorer_vars,
                 classify_vars>>

BaseColumns ==
  <<"organization", "domain", "industry", "emails_found", "employees", "score">>

\* pd.DataFrame(list of dicts)
DataFrame(rows) == [columns |-> BaseColumns, rows |-> rows]

\* sort_values(by="score", ascending=False) with the default kind="quicksort",
\* which is not stable: any descending order of the rows can come out
SortOrders(rows) ==
  {p \in Permutations(1..Len(rows)) :
     \A a, b \in 1..Len(rows) : a < b => rows[p[a]].score >= rows[p[b]].score}

Reorder(rows, p) == [a \in 1..Len(rows) |-> rows[p[a]]]

\* df["score_group"] = df["score"].apply(classify_score)
WithScoreGroup(df) ==
  [columns |-> Append(df.columns, "score_group"),
   rows |-> [a \in 1..Len(df.rows) |->
               [organization |-> df.rows[a].organization,
                domain |-> df.rows[a].domain,
                industry |-> df.rows[a].industry,
                emails_found |-> df.rows[a].emails_found,
                employees |-> df.rows[a].employees,
                score |-> df.rows[a].score,
                score_group |-> classify_score(df.rows[a].score)]]]

TopN == 10

\* df.head(n)
head(df, n) ==
  [columns |-> df.columns, rows |-> SubSeq(df.rows, 1, Min(n, Len(df.rows)))]

\* lines 181-201
BuildTables ==
  /\ pc = "tables"
  /\ results # <<>>
  /\ \E p \in SortOrders(results) :
       LET first_df == WithScoreGroup(DataFrame(Reorder(results, p)))
           second_df == DataFrame(Reorder(results, p))
       IN /\ results_df' = second_df
          /\ top10' = WithScoreGroup(head(second_df, TopN))
  /\ pc' = "done"
  /\ UNCHANGED <<domains, i, results, outcomes, log, scorer_vars, classify_vars>>

\* line 181 on an empty list: the frame has no "score" column, KeyError
SortFails ==
  /\ pc = "tables"
  /\ results = <<>>
  /\ pc' = "crashed"
  /\ UNCHANGED <<domains, i, results, outcomes, log, results_df, top10,
                 scorer_vars, classify_vars>>

Next == FetchOk \/ FetchStatus \/ FetchRaises \/ Sleep \/ BuildTables \/ SortFails
Spec == InitBatch /\ [][Next]_vars

(* ============================ scorer claims ============================ *)
HeadcountAdded == score_trace[3] - score_trace[2]
EmailBonusAdded == result.score - score_trace[4]

C4_ScoreStartupTotal == phase = "scored" => ~raised

\* C5: classify_score is "High" for score >= 75, "Mid" for 40 <= score < 75
\* and "Low" for score < 40; 75 -> High, 74 -> Mid, 40 -> Mid, 39 -> Low.
C5_TierOfScore ==
  cgroup # "none" =>
    /\ cscore >= 75 => cgroup = "High"
    /\ (40 <= cscore /\ cscore < 75) => cgroup = "Mid"
    /\ cscore < 40 => cgroup = "Low"
    /\ cscore = 75 => cgroup = "High"
    /\ cscore = 74 => cgroup = "Mid"
    /\ cscore = 40 => cgroup = "Mid"
    /\ cscore = 39 => cgroup = "Low"

C5_Witness == cscore = 75 /\ cgroup = "High"

EqIgnoreCase(a, b) ==
  /\ Len(a) = Len(b)
  /\ \A j \in 1..Len(a) :
       \/ a[j] = b[j]
       \/ \E t \in 1..Len(UpperLetters) :
            {a[j], b[j]} = {UpperLetters[t], LowerLetters[t]}

ExpectedEntryBonus(e) ==
  IF e.type.s = s_generic \/ e.type.s = s_personal
  THEN (IF e.confidence.k = "int" /\ e.confidence.n >= 80 THEN 10 ELSE 0)
       + (IF e.position.k = "str"
             /\ \E t \in {s_ceo, s_founder, s_cto} : EqIgnoreCase(e.position.s, t)
          THEN 5 ELSE 0)
  ELSE 0

RECURSIVE ExpectedBonus(_)
ExpectedBonus(es) ==
  IF es = <<>> THEN 0
  ELSE ExpectedEntryBonus(es[Len(es)]) + ExpectedBonus(SubSeq(es, 1, Len(es) - 1))

\* the emails field is a list (or missing) whose entries have a numeric or
\* missing confidence, as the data model declares
EmailsWellFormed ==
  /\ data.emails.k # "null"
  /\ \A j \in 1..Len(data.emails.l) : data.emails.l[j].confidence.k # "null"

\* C6: the per-email bonus is the sum over the generic/personal entries of
\* +10 for confidence >= 80 plus, independently, +5 for a position equal to
\* ceo/founder/cto ignoring case; other types add 0; nothing is capped: ten
\* generic entries with confidence 90 and position "CEO" add 150.
C6_EmailBonusUncapped ==
  (phase = "scored" /\ EmailsWellFormed) =>
    /\ ~raised
    /\ EmailBonusAdded = ExpectedBonus(data.emails.l)
    /\ data = TenCeoExample => (EmailBonusAdded = 150 /\ result.score > 100)

C6_Witness ==
  /\ phase = "scored" /\ data = TenCeoExample /\ ~raised
  /\ result.score = 150

\* C7: the email-volume term is min(30, emails_count * 10) when emails_count
\* is nonzero and 0 when it is 0 or absent; it never exceeds 30.
C7_EmailVolumeCapped ==
  phase = "scored" =>
    LET c == data.emails_count
        term == score_trace[1]
    IN /\ term = IF c.k = "int" /\ c.n # 0
                 THEN (IF c.n * 10 <= 30 THEN c.n * 10 ELSE 30)
                 ELSE 0
       /\ term <= 30
       /\ c = PyInt(50) => term = 30

C7_Witness ==
  phase = "scored" /\ data.emails_count = PyInt(50) /\ score_trace[1] = 30

\* C10 as stated: whatever integers emails_count and the employee count are,
\* the score returned by score_startup is non-negative.
C10_ScoreNonNegative == (phase = "scored" /\ ~raised) => result.score >= 0

(* ============================= batch claims ============================ *)
LoopOver == pc \in {"tables", "done", "crashed"}

FailedOutcome(o) ==
  \/ o.kind # "ok"
  \/ ~o.body.has_data
  \/ score_startup(o.body.data).raised

\* C1: every domain is processed and the result list ends with exactly one
\* entry per input domain, in input order; a failed domain (non-success
\* status, or an exception while fetching or scoring) gets the placeholder
\* N/A, <domain>, N/A, 0, N/A, 0; no per-domain failure aborts the batch.
C1_OneEntryPerDomain ==
  /\ Len(results) = Len(outcomes)
  /\ Len(results) <= Len(domains)
  /\ LoopOver => Len(results) = Len(domains)
  /\ pc = "crashed" => domains = <<>>
  /\ \A j \in 1..Len(results) :
       /\ outcomes[j].domain = domains[j]
       /\ IF FailedOutcome(outcomes[j])
          THEN results[j] =
                 [organization |-> PyStr(<<"N", "/", "A">>),
                  domain |-> PyStr(domains[j]),
                  industry |-> PyStr(<<"N", "/", "A">>),
                  emails_found |-> PyInt(0),
                  employees |-> PyStr(<<"N", "/", "A">>),
                  score |-> 0]
          ELSE results[j] = score_startup(outcomes[j].body.data).result

C1_Witness ==
  /\ pc = "done" /\ Len(domains) = 3 /\ Len(results) = 3
  /\ outcomes[1].kind = "ok" /\ results[1].score = 45
  /\ outcomes[2].kind = "exc" /\ results[2].score = 0
  /\ results[2].domain = PyStr(domains[2])
  /\ outcomes[3].kind = "ok" /\ results[3].score = 75

Range(f) == {f[x] : x \in DOMAIN f}

\* C3 as stated: after a batch, every row of the full result table carries a
\* score_group equal to the tier of its score, placeholders included.
C3_FullTableHasScoreGroup ==
  pc = "done" =>
    /\ "score_group" \in Range(results_df.columns)
    /\ \A a \in 1..Len(results_df.rows) :
         /\ "score_group" \in DOMAIN results_df.rows[a]
         /\ results_df.rows[a].score_group = classify_score(results_df.rows[a].score)

\* C8: fetches are issued one at a time in input order, and after each fetch
\* the result is appended and the pacing delay runs exactly once before the
\* next fetch, whatever the outcome of the earlier fetch.
C8_PacedSequentialFetches ==
  /\ \A j \in 1..Len(log) :
       /\ log[j].e = <<"fetch", "append", "sleep">>[((j - 1) % 3) + 1]
       /\ ((j - 1) \div 3) + 1 <= Len(domains)
       /\ log[j].d = domains[((j - 1) \div 3) + 1]
  /\ pc = "fetch" => Len(log) = 3 * (i - 1)
  /\ pc = "sleep" => Len(log) = 3 * (i - 1) + 2
  /\ LoopOver => Len(log) = 3 * Len(domains)

C8_Witness ==
  /\ pc = "fetch" /\ i = 3
  /\ outcomes[1].kind = "exc" /\ outcomes[2].kind = "status"
  /\ Len(log) = 6 /\ log[3].e = "sleep" /\ log[6].e = "sleep"

StableOrder(rows) ==
  CHOOSE p \in Permutations(1..Len(rows)) :
    \A a, b \in 1..Len(rows) :
      a < b => \/ rows[p[a]].score > rows[p[b]].score
               \/ rows[p[a]].score = rows[p[b]].score /\ p[a] < p[b]

\* C9 as stated: the full result table is ordered by descending score and
\* rows with equal score keep the order in which they were fetched.
C9_StableDescendingSort ==
  pc = "done" => results_df.rows = Reorder(results, StableOrder(results))

====
